---------------------------- MODULE Spec2Model ----------------------------
(***************************************************************************)
(* State machine of the coulomb-counting battery monitor of                *)
(* src/battery.ino.  The file holds two sketches of the same firmware:     *)
(*   "A"  lines 1-225   : EEPROM persistence, dead zone, temperature probe *)
(*   "B"  lines 228-395 : no persistence, dead zone commented out          *)
(*                                                                         *)
(* Numbers.  The code computes with float; the model carries every real    *)
(* quantity as an exact integer in a scaled unit, so that the linear       *)
(* formulas of the code are integer formulas:                              *)
(*   voltage : unit ESP32_VOLTAGE/4095 V (one ADC count), so that          *)
(*             (avg / 4095.0) * ESP32_VOLTAGE is the integer avg           *)
(*   current : unit ESP32_VOLTAGE/(4095*CURRENT_SENSITIVITY) A             *)
(*             (the current of one ADC count, about 4.356 mA)              *)
(*   charge  : unit of current * 1 second (about 1.21e-6 Ah)               *)
(*   time    : milliseconds, as millis()                                   *)
(* The float32 rounding of the additions is not modelled in Spec.          *)
(*                                                                         *)
(* Specifications.                                                         *)
(*   Spec          : the firmware from power-up: setup(), loop(), button,  *)
(*                   power loss                                            *)
(*   AveragingSpec : the calibration and the averaging of a tick on given  *)
(*                   samples, over the whole ADC range                     *)
(*   SteadySpec    : ticks under a steady current, with the level as the   *)
(*                   float it is (the rounding of each subtraction)        *)
(*   WrapSpec      : loop() around the wrap of millis(), with the clock as *)
(*                   the 32-bit unsigned value it is                       *)
(***************************************************************************)
EXTENDS Integers, FiniteSets, Sequences, TLC

(***************************************************************************)
(* Program constants                                                       *)
(***************************************************************************)
\* analogReadResolution(12): the largest raw count, the 4095.0 of the code
ADC_MAX == 4095
\* ESP32_VOLTAGE = 3.3 V, in millivolts
ESP32_VOLTAGE_mV == 3300
\* CURRENT_SENSITIVITY = 0.185 V/A, in millivolts per ampere
CURRENT_SENSITIVITY_mV == 185
\* CURRENT_NOISE_THRESHOLD = 0.05 A, in milliamperes
CURRENT_NOISE_THRESHOLD_mA == 50
\* BATTERY_FULL_CAPACITY = 12.064 Ah in charge units:
\* 12.064 * 3600 * 4095 * 0.185 / 3.3 = 9970237.96, to the nearest unit
BATTERY_FULL_CAPACITY == 9970238
\* SAMPLES_TO_AVERAGE (A) and CURRENT_AVG_SAMPLES (B)
SAMPLES_TO_AVERAGE == 200
CURRENT_AVG_SAMPLES == 400
\* samples and delay(ms) per sample of zeroOutCurrentSensor (A)
CalSamplesA == 500
CalDelayMsA == 2
\* samples and delay(ms) per sample of recalibrateCurrentSensor (B)
CalSamplesB == 1000
CalDelayMsB == 1
\* delay(2000) at the end of setup
SetupDelayMs == 2000
\* delay(50) of the wait for the button to be let go
HoldDelayMs == 50
\* millis() - timeOfLastCheck >= 1000
TickIntervalMs == 1000
\* millis() - timeOfLastSave >= 60000
SaveIntervalMs == 60000
\* delay(10) after requestTemperatures (A)
TempDelayMs == 10
\* timePassedInHours = 1.0 / 3600.0, in seconds
TimePassedSeconds == 1

(***************************************************************************)
(* Bounds of the model (the environment's budget)                          *)
(***************************************************************************)
\* The model follows three scenarios.  "short": a few seconds of uptime
\* with every input varied but the temperature.  "long": two save intervals
\* of uptime of sketch A, with one load count and the button never held
\* beyond its calibration.  "probe": as "long", for a few seconds and with
\* the temperature varied.
\* uptime (ms) up to which the idle loop is followed in each
ShortUptimeMs == 6000
LongUptimeMs == 123000
\* uptime followed after a restart
RebootUptimeMs == 4500
\* power-ups followed
MaxBoots == 2
\* activations of the calibrate button followed, in the short and in the
\* long scenario
ShortPresses == 1
MaxPresses == 2
\* iterations of the button-held wait followed with the button still held
MaxHoldIters == 2
\* ticks with a load (a reading other than the no-load one) followed,
\* in the short and in the long scenario
MaxLoadTicks == 2
LongLoadTicks == 1
\* time (ms) of a tick's sensor, display and serial I/O, besides its delay
TickIoMs == 40
\* ticks a steady current is followed for
MaxSteadyTicks == 3600
\* time (ms) the loop is followed for around the wrap of millis()
WrapHorizonMs == 62000

Sketches == {"A", "B"}
SetupPcs == {"boot", "display", "calibrate0", "frozen"}
LoopPcs == {"poll", "hold", "tickcheck", "savecheck"}

(***************************************************************************)
(* Float values as stored in the 4 EEPROM bytes                            *)
(***************************************************************************)
Finite(v) == [kind |-> "finite", val |-> v]
NaN == [kind |-> "nan", val |-> 0]
PosInf == [kind |-> "posinf", val |-> 0]
NegInf == [kind |-> "neginf", val |-> 0]
\* A flash record never written: every byte 0xFF
Erased == [kind |-> "erased", val |-> 0]

\* isnan(x)
IsNan(x) == x.kind = "nan"

\* Mutant of FloatLess: <= for <
FloatLessOrEqual(x, y) ==
    CASE x.kind = "finite" -> x.val <= y
      [] x.kind = "neginf" -> TRUE
      [] OTHER -> FALSE

\* x < y on floats, y finite: false for a NaN
FloatLess(x, y) ==
    CASE x.kind = "finite" -> x.val < y
      [] x.kind = "neginf" -> TRUE
      [] OTHER -> FALSE

\* x > y on floats, y finite: false for a NaN
FloatGreater(x, y) ==
    CASE x.kind = "finite" -> x.val > y
      [] x.kind = "posinf" -> TRUE
      [] OTHER -> FALSE

\* EEPROM.get(0, batteryJuiceLeft): the 4 bytes read as a float; the
\* all-0xFF pattern of an erased record is a NaN
EepromGet(e) == IF e.kind = "erased" THEN NaN ELSE e

\* EEPROM.put(0, batteryJuiceLeft); EEPROM.commit(): the float's 4 bytes
EepromPut(x) == Finite(x)

\* Mutant of MemoryIsWeird: the isnan test left out
MemoryIsWeirdNoNan(x) ==
    FloatLess(x, 0) \/ FloatGreater(x, BATTERY_FULL_CAPACITY)

\* The check of the loaded value: TRUE when the memory is "weird"
MemoryIsWeird(x) ==
    IsNan(x) \/ FloatLess(x, 0) \/ FloatGreater(x, BATTERY_FULL_CAPACITY)

\* batteryJuiceLeft after the load at the start of setup
StartupLevel(e) ==
    IF MemoryIsWeird(EepromGet(e)) THEN BATTERY_FULL_CAPACITY
    ELSE EepromGet(e).val

(***************************************************************************)
(* The arithmetic of calibration and of a tick                             *)
(***************************************************************************)
Abs(x) == IF x < 0 THEN -x ELSE x

\* int avg = total / n (C integer division of non-negative values)
AvgReading(total, n) == total \div n

\* (avg / 4095.0) * ESP32_VOLTAGE, in voltage units
SensorVoltage(avg) == avg

\* Mutant of Amps: the zero taken at half scale, not at the calibrated offset
AmpsFromHalfScale(noLoad, v) == (ADC_MAX + 1) \div 2 - v

\* amps = (noLoadVoltage - currentSensorVoltage) / CURRENT_SENSITIVITY,
\* in current units
Amps(noLoad, v) == noLoad - v

\* Mutant of InDeadZone: abs() left out, so that every charging current is
\* taken for noise
InDeadZoneSigned(amps) ==
    amps * ((ESP32_VOLTAGE_mV * 1000) \div CURRENT_NOISE_THRESHOLD_mA)
        < ADC_MAX * CURRENT_SENSITIVITY_mV

\* abs(amps) < CURRENT_NOISE_THRESHOLD.  With amps in current units this is
\* |amps| * 3.3 / (4095 * 0.185) < 0.05, both sides times 4095 * 0.185 / 0.05
InDeadZone(amps) ==
    Abs(amps) * ((ESP32_VOLTAGE_mV * 1000) \div CURRENT_NOISE_THRESHOLD_mA)
        < ADC_MAX * CURRENT_SENSITIVITY_mV

\* the dead zone is compiled in sketch A and commented out in sketch B
DeadZoneEnabled(s) == s = "A"

\* amps after the noise filter
Filtered(s, amps) ==
    IF DeadZoneEnabled(s) /\ InDeadZone(amps) THEN 0 ELSE amps

\* ampsUsed = amps * timePassedInHours, in charge units
AmpsUsed(amps) == amps * TimePassedSeconds

\* Mutant of Clamp: the test against 0 left out
ClampUpperOnly(x) ==
    IF x > BATTERY_FULL_CAPACITY THEN BATTERY_FULL_CAPACITY ELSE x

\* the two ifs that keep the level between 0 and full
Clamp(x) ==
    LET lo == IF x < 0 THEN 0 ELSE x
    IN  IF lo > BATTERY_FULL_CAPACITY THEN BATTERY_FULL_CAPACITY ELSE lo

\* batteryJuiceLeft after a tick
NextLevel(level, amps) == Clamp(level - AmpsUsed(amps))

\* Mutant of Reported: the percentage corrected for temperature, so that a
\* temperature that is no number makes a percentage that is no number
ReportedWithTemperature(level, tempC) ==
    [percent |-> IF IsNan(tempC) THEN NaN ELSE Finite(level * 100),
     tempC |-> tempC]

\* what a tick reports of the level and of the temperature:
\* stateOfChargePercent = (batteryJuiceLeft / BATTERY_FULL_CAPACITY) * 100.0,
\* in units of 1/BATTERY_FULL_CAPACITY percent, and tempC as it was read
Reported(level, tempC) == [percent |-> Finite(level * 100), tempC |-> tempC]

CalSamples(s) == IF s = "A" THEN CalSamplesA ELSE CalSamplesB
CalDelayMs(s) == IF s = "A" THEN CalDelayMsA ELSE CalDelayMsB
AvgSamples(s) == IF s = "A" THEN SAMPLES_TO_AVERAGE ELSE CURRENT_AVG_SAMPLES

\* the tick's current-sensor voltage from the sum of its samples:
\* avgCurrentReading = totalCurrentReading / SAMPLES_TO_AVERAGE, and
\* currentSensorVoltage = (avgCurrentReading / 4095.0) * ESP32_VOLTAGE
AveragedVolts(s, total) == SensorVoltage(AvgReading(total, AvgSamples(s)))

\* time a calibration blocks for: one delay per sample
CalibrationMs(s) == CalSamples(s) * CalDelayMs(s)

\* time a tick's body takes
TickBodyMs(s) == (IF s = "A" THEN TempDelayMs ELSE 0) + TickIoMs
\* millis() - last on unsigned long (no wrap within the uptimes followed)
ElapsedMs(t, last) == t - last

\* Mutant of NextStage: the save block placed before the tick block
NextStageSaveFirst(s, stage) ==
    CASE stage = "poll" -> IF s = "A" THEN "savecheck" ELSE "tickcheck"
      [] stage = "savecheck" -> "tickcheck"
      [] OTHER -> "poll"

\* the order of the three parts of loop(): the button, the tick, the save
\* (sketch B has no save)
NextStage(s, stage) ==
    CASE stage = "poll" -> "tickcheck"
      [] stage = "tickcheck" -> IF s = "A" THEN "savecheck" ELSE "poll"
      [] OTHER -> "poll"

(***************************************************************************)
(* The environment's inputs                                                *)
(***************************************************************************)
\* averaged raw counts the current channel is seen at: the count at rest,
\* a discharge just above and one just below the noise threshold, and the
\* rail (a large charging current)
RestCount == 2048
LoadCounts(scenario) ==
    IF scenario = "short" THEN {RestCount - 12, RestCount - 11, ADC_MAX}
    ELSE {RestCount - 12}

\* counts the sensor rests at when a calibration samples it
CalCounts(scenario) ==
    IF scenario = "short" THEN {RestCount, RestCount + 12} ELSE {RestCount}

\* sums of n raw samples: each count, the same in all n samples or with a
\* remainder that the integer division drops
Totals(counts, n) == {c * n : c \in counts} \cup {c * n + (n - 1) : c \in counts \ {ADC_MAX}}

\* sketch B has no temperature probe: its report keeps this value
NoTemp == Finite(0)

\* what getTempCByIndex(0) may return, in degrees C: a temperature, the
\* DEVICE_DISCONNECTED_C of the library, or a value that is no number
TempReadings(s, scenario) ==
    IF s = "B" THEN {NoTemp}
    ELSE IF scenario = "probe" THEN {Finite(25), Finite(-127), NaN}
    ELSE {Finite(25)}

\* contents the 4 EEPROM bytes may hold when the firmware first runs
EepromInitial(scenario) ==
    IF scenario = "short"
    THEN {Erased, NaN, PosInf, NegInf, Finite(-1),
          Finite(BATTERY_FULL_CAPACITY + 1), Finite(0), Finite(9),
          Finite(BATTERY_FULL_CAPACITY)}
    ELSE {Erased, Finite(9)}

(***************************************************************************)
(* State                                                                   *)
(***************************************************************************)
VARIABLES
    sketch,             \* which of the two sketches is flashed
    pc,                 \* "off" or the place in setup() / loop()
    now,                \* millis()
    button,             \* level of CALIBRATE_BUTTON: "LOW" is pressed
    eeprom,             \* the 4 bytes at EEPROM address 0
    batteryJuiceLeft,   \* remaining capacity (remainingCapacity_Ah in B)
    noLoadVoltage,      \* zero offset (zeroCurrentVoltage in B)
    timeOfLastCheck,    \* (lastTime in B)
    timeOfLastSave,
    shown,              \* what the last tick computed and reported
    hist,               \* history variables the properties are stated with
    env                 \* what the environment has done so far

vars == <<sketch, pc, now, button, eeprom, batteryJuiceLeft, noLoadVoltage,
          timeOfLastCheck, timeOfLastSave, shown, hist, env>>

\* shown, of the last tick:
\*   volts      currentSensorVoltage
\*   raw        amps before the noise filter
\*   amps       amps after it
\*   ampsUsed   the charge subtracted
\*   elapsedMs  the time since the tick before
\*   percent    stateOfChargePercent
\*   tempC      the temperature
NoReport ==
    [volts |-> 0, raw |-> 0, amps |-> 0, ampsUsed |-> 0, elapsedMs |-> 0,
     percent |-> Finite(0), tempC |-> NoTemp]

\* hist, since power-up:
\*   calibrations  calibration runs
\*   served        of these, the ones the button started
\*   noScreen      display.begin() has failed
\*   ticked        a tick has run
\*   unsaved       ticks since the last save or the startup load
\*   passSaved     a save ran in the loop pass just made
\*   blocking      a button calibration started and the button has not
\*                 been let go since
\*   pending       the button went low in loop() and no calibration
\*                 started since
\*   actCals       calibrations the button started since it last went low
\*   setupEnd      millis() at the end of setup(), -1 before
\*   tickAt        millis() at the start of the last tick, -1 before any
\*   saveAt        millis() at the start of the last save, -1 before any
\* and over power cycles:
\*   written       the level the last save wrote, -1 before any save
HistBoot(written) ==
    [calibrations |-> 0, served |-> 0, noScreen |-> FALSE, ticked |-> FALSE,
     unsaved |-> 0,
     passSaved |-> FALSE, blocking |-> FALSE, pending |-> FALSE,
     actCals |-> 0, setupEnd |-> -1, tickAt |-> -1, saveAt |-> -1,
     written |-> written]

\* env: the scenario, and what the environment has spent of its budget
EnvStart(scenario) ==
    [scenario |-> scenario, boots |-> 0, presses |-> 0, holdIters |-> 0,
     loadTicks |-> 0]

Init ==
    /\ env \in {EnvStart(sc) : sc \in {"short", "long", "probe"}}
    /\ sketch \in (IF env.scenario = "short" THEN Sketches ELSE {"A"})
    /\ pc = "off"
    /\ now = 0
    /\ button = "HIGH"
    /\ eeprom \in (IF sketch = "A" THEN EepromInitial(env.scenario)
                   ELSE {Erased})
    /\ batteryJuiceLeft = 0
    /\ noLoadVoltage = 0
    /\ timeOfLastCheck = 0
    /\ timeOfLastSave = 0
    /\ shown = NoReport
    /\ hist = HistBoot(-1)

(***************************************************************************)
(* Power                                                                   *)
(***************************************************************************)
\* Power-up: the globals take their initial values and millis() starts at 0
PowerOn ==
    /\ pc = "off"
    /\ env.boots < MaxBoots
    /\ pc' = "boot"
    /\ now' = 0
    /\ batteryJuiceLeft' = IF sketch = "A" THEN 0 ELSE BATTERY_FULL_CAPACITY
    /\ noLoadVoltage' = 0
    /\ timeOfLastCheck' = 0
    /\ timeOfLastSave' = 0
    /\ shown' = NoReport
    /\ hist' = HistBoot(hist.written)
    /\ env' = [env EXCEPT !.boots = @ + 1, !.holdIters = 0]
    /\ UNCHANGED <<sketch, button, eeprom>>

\* Power is lost: only the EEPROM keeps its content
PowerLoss ==
    /\ pc # "off"
    /\ pc' = "off"
    /\ now' = 0
    /\ batteryJuiceLeft' = 0
    /\ noLoadVoltage' = 0
    /\ timeOfLastCheck' = 0
    /\ timeOfLastSave' = 0
    /\ shown' = NoReport
    /\ hist' = HistBoot(hist.written)
    /\ env' = [env EXCEPT !.holdIters = 0]
    /\ UNCHANGED <<sketch, button, eeprom>>

(***************************************************************************)
(* setup()                                                                 *)
(***************************************************************************)
\* A 58-69: load the level and fall back to full.  B has no EEPROM.
SetupLoad ==
    /\ pc = "boot"
    /\ pc' = "display"
    /\ batteryJuiceLeft' =
          IF sketch = "A" THEN StartupLevel(eeprom) ELSE batteryJuiceLeft
    /\ UNCHANGED <<sketch, now, button, eeprom, noLoadVoltage,
                   timeOfLastCheck, timeOfLastSave, shown, hist, env>>

\* Mutant of AfterDisplayBegin: the failure of display.begin() ignored
AfterDisplayBeginIgnored(ok) == "calibrate0"

\* where setup goes after display.begin(): on, or into the endless loop
AfterDisplayBegin(ok) == IF ok THEN "calibrate0" ELSE "frozen"

\* display.begin(): the screen answers or it does not
SetupDisplay ==
    /\ pc = "display"
    /\ \E ok \in BOOLEAN :
          /\ pc' = AfterDisplayBegin(ok)
          /\ hist' = [hist EXCEPT !.noScreen = ~ok]
    /\ UNCHANGED <<sketch, now, button, eeprom, batteryJuiceLeft,
                   noLoadVoltage, timeOfLastCheck, timeOfLastSave, shown,
                   env>>

\* Mutant of ZeroOffset: the sum of the calibration's samples divided by
\* the number of samples of a tick
ZeroOffsetTickDivisor(s, total) == AveragedVolts(s, total)

\* zeroOutCurrentSensor / recalibrateCurrentSensor: the new zero offset
ZeroOffset(s, total) == SensorVoltage(AvgReading(total, CalSamples(s)))

\* Mutant of SetupCalibrationRuns: setup without its calibration
NoSetupCalibration == 1 - 1

\* the calibration runs setup makes before the loop starts
SetupCalibrationRuns == 1

\* the first calibration, delay(2000), and the two time stamps
SetupCalibrate ==
    /\ pc = "calibrate0"
    /\ pc' = "poll"
    /\ \E total \in Totals(CalCounts(env.scenario), CalSamples(sketch)) :
          noLoadVoltage' =
            IF SetupCalibrationRuns > 0 THEN ZeroOffset(sketch, total)
            ELSE noLoadVoltage
    /\ now' = now + SetupCalibrationRuns * CalibrationMs(sketch) + SetupDelayMs
    /\ timeOfLastCheck' = now'
    /\ timeOfLastSave' = IF sketch = "A" THEN now' ELSE timeOfLastSave
    /\ hist' = [hist EXCEPT !.calibrations = @ + SetupCalibrationRuns,
                            !.setupEnd = now']
    /\ UNCHANGED <<sketch, button, eeprom, batteryJuiceLeft, shown, env>>

(***************************************************************************)
(* loop()                                                                  *)
(***************************************************************************)
\* millis() - timeOfLastCheck >= 1000
TickDue(t, last) == ElapsedMs(t, last) >= TickIntervalMs

\* Mutant of TickStamp: the stamp moved on by one interval, so that ticks
\* missed while the loop was blocked are caught up
TickStampCatchUp(t, last) == last + TickIntervalMs

\* timeOfLastCheck = millis() at the start of a tick
TickStamp(t, last) == t

\* Mutant of SaveDue: a save on the cadence of the ticks
SaveDueEveryTick(t, last) == ElapsedMs(t, last) >= TickIntervalMs

\* Mutant of SaveDue: a save every two minutes
SaveDueLate(t, last) == ElapsedMs(t, last) >= 2 * SaveIntervalMs

\* millis() - timeOfLastSave >= 60000
SaveDue(t, last) == ElapsedMs(t, last) >= SaveIntervalMs

\* Mutant of SeenPressed: the button read with the wrong polarity
SeenPressedInverted(level) == level = "HIGH"

\* digitalRead(CALIBRATE_BUTTON) == LOW at the top of loop()
SeenPressed(level) == level = "LOW"

\* Mutant of StillHeld: the wait made for the wrong level
StillHeldInverted(level) == level = "HIGH"

\* Mutant of StillHeld: no wait for the button to be let go
NeverHeld(level) == FALSE

\* the condition of the while loop that waits for the button to be let go
StillHeld(level) == level = "LOW"

\* Top of loop(): a pressed button starts a calibration, which blocks
Poll ==
    /\ pc = "poll"
    /\ IF SeenPressed(button)
       THEN /\ pc' = "hold"
            /\ \E total \in Totals(CalCounts(env.scenario), CalSamples(sketch)) :
                  noLoadVoltage' = ZeroOffset(sketch, total)
            /\ now' = now + CalibrationMs(sketch)
            /\ hist' = [hist EXCEPT !.calibrations = @ + 1, !.served = @ + 1,
                                    !.blocking = TRUE, !.pending = FALSE,
                                    !.actCals = @ + 1, !.passSaved = FALSE]
       ELSE /\ pc' = NextStage(sketch, "poll")
            /\ hist' = [hist EXCEPT !.passSaved = FALSE]
            /\ UNCHANGED <<noLoadVoltage, now>>
    /\ UNCHANGED <<sketch, button, eeprom, batteryJuiceLeft, timeOfLastCheck,
                   timeOfLastSave, shown, env>>

\* iterations of the wait followed with the button still held
HoldBudget == IF env.scenario = "short" THEN MaxHoldIters ELSE 0

\* while (digitalRead(CALIBRATE_BUTTON) == LOW) delay(50);
HoldWait ==
    /\ pc = "hold"
    /\ IF StillHeld(button)
       THEN /\ env.holdIters < HoldBudget
            /\ pc' = "hold"
            /\ now' = now + HoldDelayMs
            /\ env' = [env EXCEPT !.holdIters = @ + 1]
       ELSE /\ pc' = NextStage(sketch, "poll")
            /\ now' = now
            /\ env' = [env EXCEPT !.holdIters = 0]
    /\ UNCHANGED <<sketch, button, eeprom, batteryJuiceLeft, noLoadVoltage,
                   timeOfLastCheck, timeOfLastSave, shown, hist>>

\* averaged counts a tick may read: the zero offset itself (no current) or,
\* within the budget, one of the load counts
LoadBudget == IF env.scenario = "short" THEN MaxLoadTicks ELSE LongLoadTicks

TickCounts == {noLoadVoltage} \cup
    (IF env.loadTicks < LoadBudget THEN LoadCounts(env.scenario) ELSE {})

\* The once-per-second block: readings, coulomb counting, clamp, report
TickCheck ==
    /\ pc = "tickcheck"
    /\ pc' = NextStage(sketch, "tickcheck")
    /\ IF TickDue(now, timeOfLastCheck)
       THEN \E total \in Totals(TickCounts, AvgSamples(sketch)),
               tempC \in TempReadings(sketch, env.scenario) :
              LET volts == AveragedVolts(sketch, total)
                  raw == Amps(noLoadVoltage, volts)
                  amps == Filtered(sketch, raw)
                  level == NextLevel(batteryJuiceLeft, amps)
              IN  /\ timeOfLastCheck' = TickStamp(now, timeOfLastCheck)
                  /\ batteryJuiceLeft' = level
                  /\ shown' = [volts |-> volts, raw |-> raw, amps |-> amps,
                               ampsUsed |-> AmpsUsed(amps),
                               elapsedMs |-> ElapsedMs(now, timeOfLastCheck),
                               percent |-> Reported(level, tempC).percent,
                               tempC |-> Reported(level, tempC).tempC]
                  /\ now' = now + TickBodyMs(sketch)
                  /\ hist' = [hist EXCEPT !.ticked = TRUE, !.tickAt = now,
                         !.unsaved = IF sketch = "A" THEN @ + 1 ELSE @]
                  /\ env' = [env EXCEPT !.loadTicks =
                               IF volts = noLoadVoltage THEN @ ELSE @ + 1]
       ELSE UNCHANGED <<timeOfLastCheck, batteryJuiceLeft, shown, now, hist,
                        env>>
    /\ UNCHANGED <<sketch, button, eeprom, noLoadVoltage, timeOfLastSave>>

\* The once-per-minute block of sketch A: EEPROM.put and commit
SaveCheck ==
    /\ pc = "savecheck"
    /\ pc' = NextStage(sketch, "savecheck")
    /\ IF SaveDue(now, timeOfLastSave)
       THEN /\ timeOfLastSave' = now
            /\ eeprom' = EepromPut(batteryJuiceLeft)
            /\ hist' = [hist EXCEPT !.unsaved = 0, !.passSaved = TRUE,
                                    !.saveAt = now,
                                    !.written = batteryJuiceLeft]
       ELSE UNCHANGED <<timeOfLastSave, eeprom, hist>>
    /\ UNCHANGED <<sketch, now, button, batteryJuiceLeft, noLoadVoltage,
                   timeOfLastCheck, shown, env>>

Min(a, b) == IF a < b THEN a ELSE b

\* time until the tick or the save is next due
NextDueIn ==
    Min(TickIntervalMs - ElapsedMs(now, timeOfLastCheck),
        IF sketch = "A" THEN SaveIntervalMs - ElapsedMs(now, timeOfLastSave)
        ELSE TickIntervalMs)

\* uptime the idle loop is followed to
UptimeLimit ==
    IF env.scenario \in {"short", "probe"} THEN ShortUptimeMs
    ELSE IF env.boots = 1 THEN LongUptimeMs ELSE RebootUptimeMs

\* Passes of loop() in which the button is up and nothing is due: only
\* time passes, until the next due time
Idle ==
    /\ pc = "poll"
    /\ ~SeenPressed(button)
    /\ NextDueIn > 0
    /\ now + NextDueIn <= UptimeLimit
    /\ now' = now + NextDueIn
    /\ UNCHANGED <<sketch, pc, button, eeprom, batteryJuiceLeft,
                   noLoadVoltage, timeOfLastCheck, timeOfLastSave, shown,
                   hist, env>>

(***************************************************************************)
(* The button                                                              *)
(***************************************************************************)
Press ==
    /\ pc # "off"
    /\ button = "HIGH"
    /\ env.presses < (IF env.scenario = "short" THEN ShortPresses
                       ELSE MaxPresses)
    /\ button' = "LOW"
    /\ env' = [env EXCEPT !.presses = @ + 1]
    /\ hist' = [hist EXCEPT !.pending = pc \in LoopPcs, !.actCals = 0]
    /\ UNCHANGED <<sketch, pc, now, eeprom, batteryJuiceLeft, noLoadVoltage,
                   timeOfLastCheck, timeOfLastSave, shown>>

Release ==
    /\ pc # "off"
    /\ button = "LOW"
    /\ button' = "HIGH"
    /\ hist' = [hist EXCEPT !.pending = FALSE, !.blocking = FALSE]
    /\ UNCHANGED <<sketch, pc, now, eeprom, batteryJuiceLeft, noLoadVoltage,
                   timeOfLastCheck, timeOfLastSave, shown, env>>

Next ==
    \/ PowerOn
    \/ PowerLoss
    \/ SetupLoad
    \/ SetupDisplay
    \/ SetupCalibrate
    \/ Poll
    \/ HoldWait
    \/ TickCheck
    \/ SaveCheck
    \/ Idle
    \/ Press
    \/ Release

Spec == Init /\ [][Next]_vars

(***************************************************************************)
(* The averaging of the samples, on given samples                          *)
(***************************************************************************)
\* What the n samples of one average add up to, given their lowest count:
\* the samples are all equal ("none" above), or one of them is a count
\* higher ("one"), or all but one of them are ("most").
Spreads == {"none", "one", "most"}

SampleTotal(count, spread, n) ==
    count * n + (CASE spread = "none" -> 0
                   [] spread = "one" -> 1
                   [] OTHER -> n - 1)

\* the samples given: every lowest count of the ADC range with every
\* spread the range leaves room for
GivenSamples ==
    {[scenario |-> "samples", count |-> c, spread |-> sp] :
        c \in 0 .. ADC_MAX, sp \in Spreads} \
    {[scenario |-> "samples", count |-> ADC_MAX, spread |-> sp] :
        sp \in Spreads \ {"none"}}

\* The program at the call of the calibration in setup(), the samples it and
\* the first tick will read given in env
AveragingInit ==
    /\ env \in GivenSamples
    /\ sketch \in Sketches
    /\ pc = "calibrate0"
    /\ now = 0
    /\ button = "HIGH"
    /\ eeprom = Erased
    /\ batteryJuiceLeft = BATTERY_FULL_CAPACITY
    /\ noLoadVoltage = 0
    /\ timeOfLastCheck = 0
    /\ timeOfLastSave = 0
    /\ shown = NoReport
    /\ hist = HistBoot(-1)

\* zeroOutCurrentSensor / recalibrateCurrentSensor on the given samples
CalibrateOnGiven ==
    /\ pc = "calibrate0"
    /\ pc' = "tickcheck"
    /\ noLoadVoltage' =
          ZeroOffset(sketch, SampleTotal(env.count, env.spread,
                                         CalSamples(sketch)))
    /\ now' = now + CalibrationMs(sketch)
    /\ hist' = [hist EXCEPT !.calibrations = @ + 1]
    /\ UNCHANGED <<sketch, button, eeprom, batteryJuiceLeft, timeOfLastCheck,
                   timeOfLastSave, shown, env>>

\* the averaging of a tick on the given samples
AverageOnGiven ==
    /\ pc = "tickcheck"
    /\ pc' = "averaged"
    /\ shown' = [shown EXCEPT !.volts =
          AveragedVolts(sketch, SampleTotal(env.count, env.spread,
                                            AvgSamples(sketch)))]
    /\ UNCHANGED <<sketch, now, button, eeprom, batteryJuiceLeft,
                   noLoadVoltage, timeOfLastCheck, timeOfLastSave, hist, env>>

AveragingNext == CalibrateOnGiven \/ AverageOnGiven

AveragingSpec == AveragingInit /\ [][AveragingNext]_vars

(***************************************************************************)
(* The level as the float it is, under a steady current                    *)
(***************************************************************************)
\* A float has a mantissa of 24 bits.  Between 8 and 16 Ah the level is a
\* whole number of steps of 2^-20 Ah, and here batteryJuiceLeft is that
\* number.  The currents followed keep the level between 8 and 16 Ah over
\* the ticks followed.

\* n / q to the nearest whole number (no quotient below is a tie)
Nearest(n, q) == n \div q + (IF 2 * (n % q) >= q THEN 1 ELSE 0)

\* BATTERY_FULL_CAPACITY = 12.064f in steps of 2^-20 Ah:
\* 12.064 * 2^20 = 12064 * 2^17 / 125
FullSteps == Nearest(12064 * 2^17, 125)

\* timePassedInHours = 1.0 / 3600.0 as a float: a mantissa in units of
\* 2^-35 h, 2^35 / 3600 = 2 * 2^30 / 225 to the nearest whole number
HourMantissa == 2 * (2^30 \div 225) + Nearest(2 * (2^30 % 225), 225)

\* binary places of 2^-35 below a step of 2^-20
HourShift == 35 - 20

\* the steady currents followed, sign * 2^exp A (the product of such a
\* current and timePassedInHours is exact): 1 A and 2 A of discharge and
\* 1 A of charge
SteadyCurrents ==
    {[sign |-> 1, exp |-> 0], [sign |-> 1, exp |-> 1], [sign |-> -1, exp |-> 0]}

\* the levels a steady current starts from: full, and 2^20 steps (1 Ah)
\* below
SteadyStarts == {FullSteps, FullSteps - 2^20}

\* Mutant of FloatSubtract: the difference cut off, not rounded
FloatSubtractCutOff(m, sign, a, shift) ==
    LET whole == a \div 2^shift
        part == a % 2^shift
    IN  m - sign * whole - (IF part > 0 /\ sign > 0 THEN 1 ELSE 0)

\* batteryJuiceLeft -= ampsUsed on floats: from a level of m steps, ampsUsed
\* of sign * a / 2^shift steps; the difference to the nearest step, a tie
\* to the even one
FloatSubtract(m, sign, a, shift) ==
    LET whole == a \div 2^shift
        part == a % 2^shift
        half == 2^(shift - 1)
        near == m - sign * whole
        far == near - sign
    IN  IF part < half THEN near
        ELSE IF part > half THEN far
        ELSE IF near % 2 = 0 THEN near ELSE far

\* the two ifs that keep the level between 0 and full, on steps
ClampSteps(m) ==
    LET lo == IF m < 0 THEN 0 ELSE m
    IN  IF lo > FullSteps THEN FullSteps ELSE lo

\* The program in loop() with a tick due, the current it will see and the
\* level it starts from given in env
SteadyInit ==
    /\ env \in {[scenario |-> "steady", sign |-> i.sign, exp |-> i.exp,
                  start |-> r, ticks |-> 0] :
                    i \in SteadyCurrents, r \in SteadyStarts}
    /\ sketch \in Sketches
    /\ pc = "tickcheck"
    /\ now = TickIntervalMs
    /\ button = "HIGH"
    /\ eeprom = Erased
    /\ batteryJuiceLeft = env.start
    /\ noLoadVoltage = RestCount
    /\ timeOfLastCheck = 0
    /\ timeOfLastSave = 0
    /\ shown = NoReport
    /\ hist = HistBoot(-1)

\* a tick, the one before it 1000 ms ago, with the given current: the
\* subtraction of ampsUsed and the clamp
SteadyTick ==
    /\ pc = "tickcheck"
    /\ env.ticks < MaxSteadyTicks
    /\ TickDue(now, timeOfLastCheck)
    /\ timeOfLastCheck' = TickStamp(now, timeOfLastCheck)
    /\ now' = now + TickIntervalMs
    /\ batteryJuiceLeft' =
          ClampSteps(FloatSubtract(batteryJuiceLeft, env.sign, HourMantissa,
                                   HourShift - env.exp))
    /\ env' = [env EXCEPT !.ticks = @ + 1]
    /\ UNCHANGED <<sketch, pc, button, eeprom, noLoadVoltage, timeOfLastSave,
                   shown, hist>>

SteadyNext == SteadyTick

SteadySpec == SteadyInit /\ [][SteadyNext]_vars

(***************************************************************************)
(* The loop around the wrap of millis()                                    *)
(***************************************************************************)
\* An unsigned long is 32 bits wide.  Here now, timeOfLastCheck and
\* timeOfLastSave are such values, each as two halves of 16 bits,
\* hi * 2^16 + lo; hist holds the time that has really passed since the
\* last tick and the last save.
Half == 2^16

\* x + d on unsigned long, for a d of 0 .. 2^16 - 1
AddU32(x, d) ==
    [hi |-> (x.hi + (x.lo + d) \div Half) % Half, lo |-> (x.lo + d) % Half]

\* x - y on unsigned long
SubU32(x, y) ==
    LET borrow == IF x.lo < y.lo THEN 1 ELSE 0
    IN  [hi |-> (x.hi - y.hi - borrow + Half) % Half,
         lo |-> (x.lo - y.lo + Half) % Half]

\* x >= c on unsigned long, for a c of 0 .. 2^16 - 1
AtLeastU32(x, c) == x.hi > 0 \/ x.lo >= c

\* x >= y on unsigned long
NotBelowU32(x, y) == x.hi > y.hi \/ (x.hi = y.hi /\ x.lo >= y.lo)

\* Mutant of TickDueU32: the time compared with a deadline
TickDueByDeadline(t, last) == NotBelowU32(t, AddU32(last, TickIntervalMs))

\* millis() - timeOfLastCheck >= 1000 on unsigned long
TickDueU32(t, last) == AtLeastU32(SubU32(t, last), TickIntervalMs)

\* millis() - timeOfLastSave >= 60000 on unsigned long
SaveDueU32(t, last) == AtLeastU32(SubU32(t, last), SaveIntervalMs)

\* the value of millis() d ms before it wraps to 0
BeforeWrap(d) == SubU32([hi |-> 0, lo |-> 0], [hi |-> 0, lo |-> d])

\* how long before the wrap the loop is taken up (ms), and how long
\* before that the last save was made
WrapStarts == {1, 500, 950, 1000, 30000}
WrapSaveAges == {0, 59000, 59500}

\* The program in loop() after 49.7 days, at the end of the pass that made
\* a tick, and a save some time before
WrapInit ==
    /\ sketch \in Sketches
    /\ env \in {[scenario |-> "wrap", elapsed |-> 0]}
    /\ pc = "poll"
    /\ \E d \in WrapStarts, age \in WrapSaveAges :
          /\ now = BeforeWrap(d)
          /\ timeOfLastCheck = SubU32(now, [hi |-> 0, lo |-> TickBodyMs(sketch)])
          /\ timeOfLastSave =
                IF sketch = "A" THEN SubU32(now, [hi |-> 0, lo |-> age])
                ELSE [hi |-> 0, lo |-> 0]
          /\ hist = [sinceTick |-> TickBodyMs(sketch),
                     sinceSave |-> IF sketch = "A" THEN age ELSE 0]
    /\ button = "HIGH"
    /\ eeprom = IF sketch = "A" THEN EepromPut(BATTERY_FULL_CAPACITY) ELSE Erased
    /\ batteryJuiceLeft = BATTERY_FULL_CAPACITY
    /\ noLoadVoltage = RestCount
    /\ shown = NoReport

\* the top of loop() with the button up
WrapPoll ==
    /\ pc = "poll"
    /\ ~SeenPressed(button)
    /\ pc' = NextStage(sketch, "poll")
    /\ UNCHANGED <<sketch, now, button, eeprom, batteryJuiceLeft,
                   noLoadVoltage, timeOfLastCheck, timeOfLastSave, shown,
                   hist, env>>

\* the once-per-second block, the current sensor at rest
WrapTickCheck ==
    /\ pc = "tickcheck"
    /\ pc' = NextStage(sketch, "tickcheck")
    /\ IF TickDueU32(now, timeOfLastCheck)
       THEN /\ timeOfLastCheck' = TickStamp(now, timeOfLastCheck)
            /\ batteryJuiceLeft' = NextLevel(batteryJuiceLeft, 0)
            /\ now' = AddU32(now, TickBodyMs(sketch))
            /\ hist' = [sinceTick |-> TickBodyMs(sketch),
                        sinceSave |-> IF sketch = "A"
                                      THEN hist.sinceSave + TickBodyMs(sketch)
                                      ELSE 0]
            /\ env' = [env EXCEPT !.elapsed = @ + TickBodyMs(sketch)]
       ELSE UNCHANGED <<timeOfLastCheck, batteryJuiceLeft, now, hist, env>>
    /\ UNCHANGED <<sketch, button, eeprom, noLoadVoltage, timeOfLastSave,
                   shown>>

\* the once-per-minute block of sketch A
WrapSaveCheck ==
    /\ pc = "savecheck"
    /\ pc' = NextStage(sketch, "savecheck")
    /\ IF SaveDueU32(now, timeOfLastSave)
       THEN /\ timeOfLastSave' = now
            /\ eeprom' = EepromPut(batteryJuiceLeft)
            /\ hist' = [hist EXCEPT !.sinceSave = 0]
       ELSE UNCHANGED <<timeOfLastSave, eeprom, hist>>
    /\ UNCHANGED <<sketch, now, button, batteryJuiceLeft, noLoadVoltage,
                   timeOfLastCheck, shown, env>>

\* time that really has to pass until the tick or the save is next due
WrapDueIn ==
    Min(TickIntervalMs - hist.sinceTick,
        IF sketch = "A" THEN SaveIntervalMs - hist.sinceSave
        ELSE TickIntervalMs)

\* Passes of loop() in which nothing is due: time passes, up to the last
\* millisecond before the next due time, and then that millisecond
WrapIdle ==
    /\ pc = "poll"
    /\ WrapDueIn > 0
    /\ LET step == IF WrapDueIn > 1 THEN WrapDueIn - 1 ELSE 1
       IN  /\ env.elapsed + step <= WrapHorizonMs
           /\ now' = AddU32(now, step)
           /\ hist' = [sinceTick |-> hist.sinceTick + step,
                       sinceSave |-> IF sketch = "A"
                                     THEN hist.sinceSave + step ELSE 0]
           /\ env' = [env EXCEPT !.elapsed = @ + step]
    /\ UNCHANGED <<sketch, pc, button, eeprom, batteryJuiceLeft,
                   noLoadVoltage, timeOfLastCheck, timeOfLastSave, shown>>

WrapNext == WrapPoll \/ WrapTickCheck \/ WrapSaveCheck \/ WrapIdle

WrapSpec == WrapInit /\ [][WrapNext]_vars

(***************************************************************************)
(* Properties                                                              *)
(***************************************************************************)
\* the places of the program at which the startup load has been made
Loaded == pc \notin {"off", "boot"}

\* C1: once the startup load is made, the level is between 0 and the full
\* capacity in every state, whatever ticks, recalibrations, saves and
\* restarts have happened.
LevelWithinCapacity ==
    Loaded => 0 <= batteryJuiceLeft /\ batteryJuiceLeft <= BATTERY_FULL_CAPACITY

\* C1 witness: a level of 9 units was discharged by 12 and clamped to 0
LevelClampedAtZero ==
    /\ pc \in LoopPcs
    /\ eeprom = Finite(9)
    /\ shown.ampsUsed = 12
    /\ env.loadTicks = 1
    /\ batteryJuiceLeft = 0

\* C2: after the load of sketch A and before the first tick, the level is
\* the full capacity when the stored value is absent, not a finite number,
\* negative or above the full capacity, and the stored value otherwise.
StartupFallback ==
    (sketch = "A" /\ Loaded /\ ~hist.ticked) =>
        batteryJuiceLeft =
            IF \/ eeprom.kind \in {"erased", "nan", "posinf", "neginf"}
               \/ eeprom.val < 0
               \/ eeprom.val > BATTERY_FULL_CAPACITY
            THEN BATTERY_FULL_CAPACITY
            ELSE eeprom.val

\* C2 witness: an infinite stored value has been replaced by the full level
InfinityFellBack ==
    /\ sketch = "A"
    /\ pc = "display"
    /\ eeprom = PosInf
    /\ batteryJuiceLeft = BATTERY_FULL_CAPACITY

\* a step of the running program that makes a save
SaveStep == pc \in LoopPcs /\ pc' \in LoopPcs /\ timeOfLastSave' # timeOfLastSave

\* C3: the EEPROM is written only by the save block, between ticks, and
\* with the live level; and at the end of a loop pass that made a save the
\* stored value is the live level, the tick of that pass included.
SaveSeesCompletedTicks ==
    /\ []((pc = "poll" /\ hist.passSaved) => eeprom = Finite(batteryJuiceLeft))
    /\ [][/\ eeprom' # eeprom => SaveStep
          /\ SaveStep => /\ pc = "savecheck"
                          /\ eeprom' = Finite(batteryJuiceLeft)
                          /\ batteryJuiceLeft' = batteryJuiceLeft]_vars

\* C3 witness: a pass made a tick under load and then a save
TickAndSaveInOnePass ==
    /\ pc = "poll"
    /\ hist.passSaved
    /\ shown.ampsUsed = 12
    /\ timeOfLastSave = timeOfLastCheck + TickBodyMs(sketch)

\* C4: a restart loads exactly the level the last save wrote.
SavedLevelRestored ==
    (sketch = "A" /\ Loaded /\ ~hist.ticked /\ hist.written # -1) =>
        batteryJuiceLeft = hist.written

\* C4 witness: a saved level of 0 has been loaded by a restart
ZeroRestored ==
    /\ pc = "display"
    /\ env.boots = 2
    /\ hist.written = 0
    /\ batteryJuiceLeft = 0

\* C5: from the start of a button calibration until the button is let go
\* the program stays in the wait: no tick, no save, no change of the level.
RecalibrationBlocks ==
    [][(hist.blocking /\ hist'.blocking) =>
          /\ pc' = "hold"
          /\ UNCHANGED <<batteryJuiceLeft, eeprom, timeOfLastCheck,
                         timeOfLastSave, shown>>
          /\ hist'.ticked = hist.ticked
          /\ hist'.unsaved = hist.unsaved]_vars

\* C5 witness: the button is still held after a calibration and a tick is
\* overdue
HeldPastDueTick ==
    /\ hist.blocking
    /\ pc = "hold"
    /\ env.holdIters = 2
    /\ TickDue(now, timeOfLastCheck)

\* C6: the charge a tick subtracts is its current times the real time since
\* the previous tick (charge units are current units times seconds).
TickChargesElapsedTime ==
    hist.ticked => shown.ampsUsed * 1000 = shown.amps * shown.elapsedMs

\* ticks in one save interval
TicksPerSave == SaveIntervalMs \div TickIntervalMs

\* the level the next startup would load
RestoredLevel == StartupLevel(eeprom)

\* the most a tick can move the level: the current of the full ADC range
MaxTickCharge == AmpsUsed(ADC_MAX)

\* C7 as claimed: at most 60 ticks are not in the stored value.
AtMostOneWindowUnsaved ==
    (sketch = "A" /\ pc \in LoopPcs) =>
        /\ hist.unsaved <= TicksPerSave
        /\ Abs(batteryJuiceLeft - RestoredLevel) <= hist.unsaved * MaxTickCharge

\* C7 amended: at most 61 ticks are not in the stored value, and the live
\* level differs from the one a restart would load by their effect at most.
AtMostOneWindowAndOneUnsaved ==
    (sketch = "A" /\ pc \in LoopPcs) =>
        /\ hist.unsaved <= TicksPerSave + 1
        /\ Abs(batteryJuiceLeft - RestoredLevel) <= hist.unsaved * MaxTickCharge

\* C7 witness: 61 ticks have run since the last save
SixtyOneUnsaved ==
    /\ pc = "savecheck"
    /\ hist.unsaved = TicksPerSave + 1
    /\ hist.written # -1

\* C8 as claimed: no request ends, with the button let go, before a
\* calibration has started for it.
EveryRequestCalibrates ==
    [][(button = "LOW" /\ button' = "HIGH") => ~hist.pending]_vars

\* C8 amended: a request that is active when the top of loop() reads the
\* button starts a calibration, which replaces the zero offset.
PolledRequestCalibrates ==
    [][(pc = "poll" /\ button = "LOW" /\ pc' \notin {"poll", "off"}) =>
          /\ pc' = "hold"
          /\ hist'.calibrations = hist.calibrations + 1
          /\ ~hist'.pending
          /\ noLoadVoltage' \in CalCounts(env.scenario)]_vars

\* C8 witness: a button calibration has replaced the zero offset of startup
OffsetReplacedOnRequest ==
    /\ pc = "hold"
    /\ hist.served = 1
    /\ hist.calibrations = 2
    /\ noLoadVoltage = RestCount + 12

\* C9: once display.begin() has failed the program stays in its endless
\* loop: no calibration, no tick, no change of the level, no EEPROM write.
NoScreenHalts ==
    /\ [](hist.noScreen =>
            /\ pc = "frozen"
            /\ hist.calibrations = 0
            /\ ~hist.ticked
            /\ noLoadVoltage = 0)
    /\ [][hist.noScreen =>
            /\ eeprom' = eeprom
            /\ hist'.noScreen =>
                  UNCHANGED <<batteryJuiceLeft, noLoadVoltage, now,
                              timeOfLastCheck, timeOfLastSave, shown>>]_vars

\* C9 witness: the button is pressed while the program is halted
PressedWhileHalted ==
    /\ pc = "frozen"
    /\ hist.noScreen
    /\ button = "LOW"

\* C10: setup makes no tick and, when it succeeds, exactly one calibration:
\* in loop() the calibrations made are that one and those of the button, so
\* every tick runs with a calibrated zero offset.
StartupCalibratesOnce ==
    /\ pc \in SetupPcs => hist.calibrations = 0 /\ ~hist.ticked
    /\ pc \in LoopPcs => hist.calibrations = hist.served + 1
    /\ hist.ticked => hist.calibrations >= 1 /\ noLoadVoltage \in CalCounts(env.scenario)

\* C10 witness: a tick has run after the startup calibration alone
TickAfterStartupCalibration ==
    /\ hist.ticked
    /\ hist.calibrations = 1
    /\ hist.served = 0

\* a step of the running program that makes a tick
TickStep == pc \in LoopPcs /\ pc' \in LoopPcs /\ timeOfLastCheck' # timeOfLastCheck

\* C11: a tick whose current-sensor voltage is exactly the zero offset
\* computes a current of 0 before the noise filter, and leaves the level,
\* and so the percentage, as they were.
ReadingAtZeroOffset ==
    [][(TickStep /\ shown'.volts = noLoadVoltage) =>
          /\ shown'.raw = 0
          /\ shown'.amps = 0
          /\ batteryJuiceLeft' = batteryJuiceLeft
          /\ shown'.percent = Finite(batteryJuiceLeft * 100)]_vars

\* C11 witness: sketch B, which has no noise filter, has made a tick under
\* load and then one with the reading at the zero offset
LevelKeptAtZeroOffset ==
    /\ sketch = "B"
    /\ env.loadTicks = 1
    /\ shown.volts = noLoadVoltage
    /\ shown.raw = 0
    /\ shown.elapsedMs = TickIntervalMs
    /\ batteryJuiceLeft = BATTERY_FULL_CAPACITY - 12

\* CURRENT_NOISE_THRESHOLD as a quotient of current units
NoiseNumerator == CURRENT_NOISE_THRESHOLD_mA * ADC_MAX * CURRENT_SENSITIVITY_mV
NoiseDenominator == ESP32_VOLTAGE_mV * 1000

\* |raw| < CURRENT_NOISE_THRESHOLD, strictly, for raw in current units
BelowNoise(raw) ==
    /\ Abs(raw) <= NoiseNumerator \div NoiseDenominator
    /\ Abs(raw) * NoiseDenominator # NoiseNumerator

\* C12: in sketch A, where the noise filter is compiled in, the current a
\* tick uses is 0 when the computed current is below the threshold in
\* absolute value, and the computed current itself when it is not.  (No
\* difference of two ADC counts is the threshold exactly.)
DeadZoneFilter ==
    (sketch = "A" /\ hist.ticked) =>
        /\ shown.amps = IF BelowNoise(shown.raw) THEN 0 ELSE shown.raw
        /\ shown.ampsUsed = shown.amps * TimePassedSeconds

\* C12 witness: a current of 11 counts, the largest below the threshold,
\* was taken for 0
NoiseTakenForZero ==
    /\ sketch = "A"
    /\ hist.ticked
    /\ shown.raw = 11
    /\ shown.amps = 0
    /\ shown.ampsUsed = 0

\* C16 as claimed: a temperature that is no number makes the reported
\* percentage no number.
NanTemperatureReachesPercent ==
    (hist.ticked /\ IsNan(shown.tempC)) => IsNan(shown.percent)

\* C16 amended: the temperature is reported as it was read, and whatever it
\* is the reported percentage is the number computed from the level alone,
\* between 0 and 100.
PercentFromLevelAlone ==
    hist.ticked =>
        /\ shown.percent = Finite(batteryJuiceLeft * 100)
        /\ 0 <= shown.percent.val
        /\ shown.percent.val <= 100 * BATTERY_FULL_CAPACITY
        /\ shown.tempC \in TempReadings(sketch, env.scenario)

\* C16 witness: a tick under load has reported a temperature that is no
\* number beside a percentage that is one
NanTemperatureShown ==
    /\ hist.ticked
    /\ IsNan(shown.tempC)
    /\ shown.amps = 12
    /\ shown.percent = Finite((BATTERY_FULL_CAPACITY - 12) * 100)

\* C17: a save starts 60000 ms or more after the end of setup and after
\* the start of the save before it.
SavesRateLimited ==
    [][SaveStep =>
          /\ hist.setupEnd # -1
          /\ now - (IF hist.saveAt = -1 THEN hist.setupEnd ELSE hist.saveAt)
                 >= SaveIntervalMs
          /\ hist'.saveAt = now]_vars

\* C17 witness: the second save of a run in which the button started a
\* calibration
SecondSaveAfterCalibration ==
    /\ pc = "poll"
    /\ hist.passSaved
    /\ hist.served >= 1
    /\ hist.saveAt >= hist.setupEnd + 2 * SaveIntervalMs

\* C18 as claimed: an activation that ends while loop() runs has started
\* exactly one calibration.
ActivationCalibratesOnce ==
    [][(pc \in LoopPcs /\ button = "LOW" /\ button' = "HIGH") =>
          hist.actCals = 1]_vars

\* C18 amended: an activation starts at most one calibration, however long
\* the button is held.
ActivationCalibratesAtMostOnce == hist.actCals <= 1

\* C18 witness: the button is held on after the calibration it started, as
\* long as the wait is followed
HeldOnAfterCalibration ==
    /\ button = "LOW"
    /\ hist.actCals = 1
    /\ hist.served = 1
    /\ env.holdIters = MaxHoldIters

\* C19: a tick starts 1000 ms or more after the end of setup and after the
\* start of the tick before it, moves the level by one update, and is the
\* only kind of step of loop() that changes the level.
TicksRateLimited ==
    [][/\ TickStep =>
            /\ hist.setupEnd # -1
            /\ now - (IF hist.tickAt = -1 THEN hist.setupEnd ELSE hist.tickAt)
                   >= TickIntervalMs
            /\ hist'.tickAt = now
            /\ batteryJuiceLeft' = NextLevel(batteryJuiceLeft, shown'.amps)
       /\ (pc \in LoopPcs /\ pc' \in LoopPcs
              /\ batteryJuiceLeft' # batteryJuiceLeft) => TickStep]_vars

\* C19 witness: the loop pass after a tick that came two intervals or more
\* after the one before it has reached the tick block, and no tick is due
NoCatchUpAfterBlock ==
    /\ pc = "tickcheck"
    /\ hist.tickAt # -1
    /\ shown.elapsedMs >= 2 * TickIntervalMs
    /\ now - hist.tickAt < TickIntervalMs
    /\ ~TickDue(now, timeOfLastCheck)

\* C13 (under AveragingSpec): a calibration whose samples all equal one
\* count C of the ADC range sets the zero offset to the voltage of C,
\* (C / 4095.0) * ESP32_VOLTAGE.
ConstantSamplesCalibrate ==
    (pc # "calibrate0" /\ env.spread = "none") =>
        noLoadVoltage = SensorVoltage(env.count)

\* C13 witness: sketch B has calibrated on samples that are all 4095
CalibratedAtFullScale ==
    /\ sketch = "B"
    /\ pc = "tickcheck"
    /\ hist.calibrations = 1
    /\ env.count = ADC_MAX
    /\ noLoadVoltage = ADC_MAX

\* C15 (under AveragingSpec): the voltage a tick uses is the voltage of the
\* mean of its samples: in voltage units, the sum of the samples over their
\* number.
ReadingIsMeanOfSamples ==
    pc = "averaged" =>
        shown.volts * AvgSamples(sketch) =
            SampleTotal(env.count, env.spread, AvgSamples(sketch))

\* the fall of the level since the start, and the fall the claim's formula
\* I * N / 3600 gives, clamped at full, both in 225ths of a step
\* (2^20 / 3600 = 2^16 / 225)
FallenSteps225 == 225 * (env.start - batteryJuiceLeft)

ClaimedSteps225 ==
    LET fall == env.sign * 2^env.exp * env.ticks * 2^16
        room == 225 * (FullSteps - env.start)
    IN  IF fall < -room THEN -room ELSE fall

\* C14 as claimed (under SteadySpec): after N ticks the level is
\* R0 - I * N / 3600, clamped, when written with the three decimals of the
\* claim's example: less than 0.0005 Ah (2^20 / 2000 steps) away from it.
SteadyDischargeExact ==
    Abs(FallenSteps225 - ClaimedSteps225) * 2000 < 225 * 2^20

\* C14 amended (under SteadySpec): after N ticks the level is
\* R0 - I * N / 3600, clamped, to within the rounding of N subtractions of
\* floats, half a step each.
SteadyDischargeRounded ==
    Abs(FallenSteps225 - ClaimedSteps225) * 2 <= 225 * env.ticks

\* C14 witness: the claim's example, 3600 ticks of 1 A from the full level:
\* each tick took 291 steps of the 291.27 owed
HourAtOneAmp ==
    /\ env.ticks = MaxSteadyTicks
    /\ env.sign = 1
    /\ env.exp = 0
    /\ env.start = FullSteps
    /\ batteryJuiceLeft = FullSteps - 291 * env.ticks

\* C20 (under WrapSpec): whatever millis() and the stamps are, before the
\* wrap or across it, the tick's check finds a tick due exactly when
\* 1000 ms or more have really passed since the last tick, and the save's
\* check a save exactly when 60000 ms or more have since the last save.
DueChecksAcrossWrap ==
    /\ TickDueU32(now, timeOfLastCheck) <=> hist.sinceTick >= TickIntervalMs
    /\ sketch = "A" =>
          (SaveDueU32(now, timeOfLastSave) <=> hist.sinceSave >= SaveIntervalMs)

\* C20 witness: at the tick's check millis() has wrapped since the last
\* tick, 1000 ms ago, and since the last save
TickDueAfterWrap ==
    /\ sketch = "A"
    /\ pc = "tickcheck"
    /\ timeOfLastCheck.hi = Half - 1
    /\ timeOfLastSave.hi = Half - 1
    /\ now.hi = 0
    /\ hist.sinceTick = TickIntervalMs
    /\ TickDueU32(now, timeOfLastCheck)
=============================================================================
